---- MODULE Spec2Model ----
(***************************************************************************)
(* Model of package go2vec (type Embeddings): a flat embedding matrix, a   *)
(* word -> row index map and a row -> word array, with Put, the lookups,   *)
(* the Similarity / Analogy ranking, Iterate, and the word2vec binary      *)
(* format read by ReadWord2VecBinary and written by Write.                 *)
(*                                                                         *)
(* Conventions.                                                            *)
(*  - A float32 is modelled as an integer; sums and products are exact.    *)
(*    NaN, infinities and rounding are outside the model.                  *)
(*  - A Go slice is a TLA+ sequence.  Row indices are 0-based as in the    *)
(*    code, sequences are 1-based, so row idx of e.words is words[idx+1].  *)
(*  - A word is a sequence of one-character strings, so that               *)
(*    strings.TrimSpace can be computed.                                   *)
(*  - A Go map is a function; its key set is the DOMAIN.                   *)
(***************************************************************************)
EXTENDS Integers, Sequences, FiniteSets, TLC

(***************************************************************************)
(* Bounds of the model.                                                    *)
(***************************************************************************)
\* the 'limit' argument of a query ranges over -1..MaxLimit
MaxLimit == 2
\* a file read by ReadWord2VecBinary declares at most MaxFileWords records
MaxFileWords == 2
\* the stores that are written and read back have at most MaxIORows rows,
\* unless a file gave them more
MaxIORows == 2

\* the embedding sizes of the stores
Dims == {0, 1, 2}
Limits == (0 - 1)..MaxLimit
\* the words callers pass to Put and to the queries
Words == {<<"a">>, <<"b">>, <<"c">>}
\* the bytes of a record of a file in front of its space, which
\* r.ReadString(' ') returns: a word2vec file ends every record with a
\* newline, which then starts the next token
RawWords == Words \cup {<<"\n", "a">>}

Whitespace == {" ", "\n", "\t", "\r"}

\* the embeddings of length n that callers and files supply
Vectors(n) ==
    CASE n = 0 -> {<<>>}
      [] n = 1 -> {<<0>>, <<1>>}
      [] n = 2 -> {<<1, 0>>, <<0, 1>>, <<1, 1>>}
\* the embeddings callers pass to Put: every vector of a length some store
\* takes, and one that is longer than any row
PutVectors == UNION {Vectors(n) : n \in Dims} \cup {<<1, 0, 1>>}

Max(a, b) == IF a >= b THEN a ELSE b
Min(a, b) == IF a <= b THEN a ELSE b

(***************************************************************************)
(* Errors.  fmt.Errorf values are modelled by their kind and the word or   *)
(* sizes they are formatted from.                                          *)
(***************************************************************************)
NoErr == [kind |-> "nil", word |-> <<>>]
UnknownWordError(word) == [kind |-> "UnknownWord", word |-> word]
DimensionMismatch == [kind |-> "DimensionMismatch", word |-> <<>>]
ReadError == [kind |-> "ReadError", word |-> <<>>]

(***************************************************************************)
(* The store: struct Embeddings (the blas field is the Sgemv below).       *)
(***************************************************************************)
VARIABLES
    matrix,      \* e.matrix: the flat buffer
    embedSize,   \* e.embedSize
    indices,     \* e.indices: word -> row index
    words,       \* e.words: row index -> word
    constructed, \* FALSE until a constructor has returned a store
    call,        \* the last call and its arguments
    ret,         \* what the last call returned
    origin,      \* ghost: which constructor made the store, with which size
    putWords,    \* ghost: the words of the Puts that returned nil
    threads,     \* the goroutines that run queries side by side, and their locals
    view         \* a slice that Embedding returned and the caller still holds

vars == <<matrix, embedSize, indices, words, constructed, call, ret, origin, putWords,
          threads, view>>

\* the store as one value
store == [matrix |-> matrix, embedSize |-> embedSize, indices |-> indices, words |-> words]

EmptyMap == [w \in {} |-> 0]

\* m[k] = v of a Go map
MapPut(m, k, v) == [x \in (DOMAIN m) \cup {k} |-> IF x = k THEN v ELSE m[x]]

\* NewEmbeddings(embedSize)
NewEmbeddings(size) ==
    [matrix |-> <<>>, embedSize |-> size, indices |-> EmptyMap, words |-> <<>>]

\* e.lookupIdx(idx): matrix[start : start+embedSize]
lookupIdx(e, idx) ==
    LET start == idx * e.embedSize
    IN  SubSeq(e.matrix, start + 1, start + e.embedSize)

\* Size as a slip would have it: the length of the flat buffer
Size_FromMatrix(e) == Len(e.matrix)

\* e.Size(): the number of keys of the index map
Size(e) == Cardinality(DOMAIN e.indices)

\* e.EmbeddingSize()
EmbeddingSize(e) == e.embedSize

\* e.Embedding(word)
Embedding(e, word) ==
    IF word \in DOMAIN e.indices
    THEN [embedding |-> lookupIdx(e, e.indices[word]), ok |-> TRUE]
    ELSE [embedding |-> <<>>, ok |-> FALSE]

\* e.WordIdx(word)
WordIdx(e, word) ==
    IF word \in DOMAIN e.indices
    THEN [idx |-> e.indices[word], ok |-> TRUE]
    ELSE [idx |-> 0, ok |-> FALSE]

\* copy(dst[start:], src): overwrites min(len(dst)-start, len(src)) elements
copyAt(dst, start, src) ==
    [k \in 1..Len(dst) |->
        IF k > start /\ k <= start + Len(src) THEN src[k - start] ELSE dst[k]]

\* Put as a slip would have it: the length is checked for new words only
Put_CheckOnlyNew(e, word, embedding) ==
    IF word \in DOMAIN e.indices
    THEN [e |-> [e EXCEPT !.matrix = copyAt(e.matrix, e.indices[word] * e.embedSize, embedding)],
          err |-> NoErr]
    ELSE IF Len(embedding) # e.embedSize
    THEN [e |-> e, err |-> DimensionMismatch]
    ELSE [e |-> [e EXCEPT !.indices = MapPut(e.indices, word, Len(e.words)),
                          !.words = Append(e.words, word),
                          !.matrix = e.matrix \o embedding],
          err |-> NoErr]

\* Put as a slip would have it: the overwrite starts at element idx of the
\* buffer instead of idx * embedSize
Put_OverwriteAtIdx(e, word, embedding) ==
    IF Len(embedding) # e.embedSize
    THEN [e |-> e, err |-> DimensionMismatch]
    ELSE IF word \in DOMAIN e.indices
    THEN [e |-> [e EXCEPT !.matrix = copyAt(e.matrix, e.indices[word], embedding)],
          err |-> NoErr]
    ELSE [e |-> [e EXCEPT !.indices = MapPut(e.indices, word, Len(e.words)),
                          !.words = Append(e.words, word),
                          !.matrix = e.matrix \o embedding],
          err |-> NoErr]

\* Put as a slip would have it: a row is appended for a known word too
Put_AlwaysAppend(e, word, embedding) ==
    IF Len(embedding) # e.embedSize
    THEN [e |-> e, err |-> DimensionMismatch]
    ELSE [e |-> [e EXCEPT !.indices = MapPut(e.indices, word, Len(e.words)),
                          !.words = Append(e.words, word),
                          !.matrix = e.matrix \o embedding],
          err |-> NoErr]

\* Put as a slip would have it: the index of a new word is taken after the
\* word has been appended
Put_IndexAfterAppend(e, word, embedding) ==
    IF Len(embedding) # e.embedSize
    THEN [e |-> e, err |-> DimensionMismatch]
    ELSE IF word \in DOMAIN e.indices
    THEN [e |-> [e EXCEPT !.matrix = copyAt(e.matrix, e.indices[word] * e.embedSize, embedding)],
          err |-> NoErr]
    ELSE [e |-> [e EXCEPT !.indices = MapPut(e.indices, word, Len(e.words) + 1),
                          !.words = Append(e.words, word),
                          !.matrix = e.matrix \o embedding],
          err |-> NoErr]

\* Put without the check of the length of the embedding
Put_NoLengthCheck(e, word, embedding) ==
    IF word \in DOMAIN e.indices
    THEN [e |-> [e EXCEPT !.matrix = copyAt(e.matrix, e.indices[word] * e.embedSize, embedding)],
          err |-> NoErr]
    ELSE [e |-> [e EXCEPT !.indices = MapPut(e.indices, word, Len(e.words)),
                          !.words = Append(e.words, word),
                          !.matrix = e.matrix \o embedding],
          err |-> NoErr]

\* e.Put(word, embedding): the store after the call and the error returned
Put(e, word, embedding) ==
    IF Len(embedding) # e.embedSize
    THEN [e |-> e, err |-> DimensionMismatch]
    ELSE IF word \in DOMAIN e.indices
    THEN [e |-> [e EXCEPT !.matrix = copyAt(e.matrix, e.indices[word] * e.embedSize, embedding)],
          err |-> NoErr]
    ELSE [e |-> [e EXCEPT !.indices = MapPut(e.indices, word, Len(e.words)),
                          !.words = Append(e.words, word),
                          !.matrix = e.matrix \o embedding],
          err |-> NoErr]

(***************************************************************************)
(* The ranking.                                                            *)
(***************************************************************************)
RECURSIVE dotProductFrom(_, _, _)
dotProductFrom(v, w, k) ==
    IF k > Len(v) THEN 0 ELSE v[k] * w[k] + dotProductFrom(v, w, k + 1)

\* dotProduct(v, w): sum of v[idx] * w[idx]
dotProduct(v, w) == dotProductFrom(v, w, 1)

\* The BLAS routine is not part of the package.  Its contract asks for a
\* leading dimension lda >= max(1, n); similarity passes lda = n =
\* e.EmbeddingSize(), so a ranking on a store of embedding size 0 calls the
\* routine outside its contract and is not modelled.
SgemvDefined(e) == e.embedSize >= 1

\* e.blas.Sgemv(NoTrans, m, n, 1, e.matrix, n, embed, 1, 0, dps, 1) with
\* m = e.Size() and n = e.EmbeddingSize(): dps = A * embed for the first m
\* rows of the matrix, by the definition of the routine (dps[i] is the
\* inner product of row i with embed)
Sgemv(e, embed) ==
    [i \in 1..Size(e) |-> dotProduct(lookupIdx(e, i - 1), embed)]

\* the loop of sort.Search(n, f) with f(i) = results[i].Similarity <= sim,
\* on the 0-based interval [i, j)
RECURSIVE searchLoop(_, _, _, _)
searchLoop(results, sim, i, j) ==
    IF i < j
    THEN LET h == (i + j) \div 2
         IN  IF ~(results[h + 1].Similarity <= sim)
             THEN searchLoop(results, sim, h + 1, j)
             ELSE searchLoop(results, sim, i, h)
    ELSE i

\* the search as a slip would have it: the first entry with a score < sim
RECURSIVE searchLoopStrict(_, _, _, _)
searchLoopStrict(results, sim, i, j) ==
    IF i < j
    THEN LET h == (i + j) \div 2
         IN  IF ~(results[h + 1].Similarity < sim)
             THEN searchLoopStrict(results, sim, h + 1, j)
             ELSE searchLoopStrict(results, sim, i, h)
    ELSE i

sortSearch_Strict(results, sim) == searchLoopStrict(results, sim, 0, Len(results))

\* sort.Search(len(results), func(i) { return results[i].Similarity <= sim })
sortSearch(results, sim) == searchLoop(results, sim, 0, Len(results))

\* WordSimilarity{}; Row is a ghost field: the row the entry was made from
ZeroWordSimilarity == [Word |-> <<>>, Similarity |-> 0, Row |-> 0 - 1]

\* insertWithLimit as a slip would have it: the slice grows on every insert
insertWithLimit_NoDrop(slice, limit, index, value) ==
    LET grown == Append(slice, ZeroWordSimilarity)
    IN  [k \in 1..Len(grown) |->
            IF k < index + 1 THEN grown[k]
            ELSE IF k = index + 1 THEN value
            ELSE grown[k - 1]]

\* insertWithLimit(slice, limit, index, value)
insertWithLimit(slice, limit, index, value) ==
    LET grown == IF Len(slice) < limit THEN Append(slice, ZeroWordSimilarity) ELSE slice
    IN  [k \in 1..Len(grown) |->
            IF k < index + 1 THEN grown[k]
            ELSE IF k = index + 1 THEN value
            ELSE grown[k - 1]]

\* the iteration as a slip would have it: the search stops at the first
\* entry with a score below sim, so a candidate that ties with the last
\* entry of a full list is not inserted
rankStep_Strict(e, dps, skips, limit, idx, results) ==
    IF idx \in skips
    THEN results
    ELSE LET sim == dps[idx + 1]
             ip == sortSearch_Strict(results, sim)
         IN  IF ip < limit
             THEN insertWithLimit(results, limit, ip,
                      [Word |-> e.words[idx + 1], Similarity |-> sim, Row |-> idx])
             ELSE results

\* one iteration of 'for idx, sim := range dps' in similarity
rankStep(e, dps, skips, limit, idx, results) ==
    IF idx \in skips
    THEN results
    ELSE LET sim == dps[idx + 1]
             ip == sortSearch(results, sim)
         IN  IF ip < limit
             THEN insertWithLimit(results, limit, ip,
                      [Word |-> e.words[idx + 1], Similarity |-> sim, Row |-> idx])
             ELSE results

RECURSIVE rankLoop(_, _, _, _, _, _)
rankLoop(e, dps, skips, limit, idx, results) ==
    IF idx >= Len(dps)
    THEN results
    ELSE rankLoop(e, dps, skips, limit, idx + 1,
                  rankStep(e, dps, skips, limit, idx, results))

\* e.similarity(embed, skips, limit).  The field e of what a query returns
\* is the store after the call: dps and results are slices the call makes,
\* and nothing is assigned to a field of e.
similarity(e, embed, skips, limit) ==
    [results |-> rankLoop(e, Sgemv(e, embed), skips, limit, 0, <<>>), err |-> NoErr,
     e |-> e]

\* minus(v, w): the differences, stored into a slice minus makes
minus(v, w) == [idx \in 1..Len(v) |-> v[idx] - w[idx]]

\* plus(v, w): the sums, stored into a slice plus makes
plus(v, w) == [idx \in 1..Len(v) |-> v[idx] + w[idx]]

\* e.Similarity(word, limit)
Similarity(e, word, limit) ==
    IF word \notin DOMAIN e.indices
    THEN [results |-> <<>>, err |-> UnknownWordError(word), e |-> e]
    ELSE LET idx == e.indices[word]
         IN  similarity(e, lookupIdx(e, idx), {idx}, limit)

\* Analogy as a slip would have it: word3 is looked up before word2
Analogy_Word3First(e, word1, word2, word3, limit) ==
    IF word1 \notin DOMAIN e.indices
    THEN [results |-> <<>>, err |-> UnknownWordError(word1), e |-> e]
    ELSE IF word3 \notin DOMAIN e.indices
    THEN [results |-> <<>>, err |-> UnknownWordError(word3), e |-> e]
    ELSE IF word2 \notin DOMAIN e.indices
    THEN [results |-> <<>>, err |-> UnknownWordError(word2), e |-> e]
    ELSE LET idx1 == e.indices[word1]
             idx2 == e.indices[word2]
             idx3 == e.indices[word3]
             v4 == plus(minus(lookupIdx(e, idx2), lookupIdx(e, idx1)), lookupIdx(e, idx3))
         IN  similarity(e, v4, {idx1, idx2, idx3}, limit)

\* Analogy with a minus that stores the differences into its first argument,
\* the row of word2
Analogy_MinusInPlace(e, word1, word2, word3, limit) ==
    IF word1 \notin DOMAIN e.indices
    THEN [results |-> <<>>, err |-> UnknownWordError(word1), e |-> e]
    ELSE IF word2 \notin DOMAIN e.indices
    THEN [results |-> <<>>, err |-> UnknownWordError(word2), e |-> e]
    ELSE IF word3 \notin DOMAIN e.indices
    THEN [results |-> <<>>, err |-> UnknownWordError(word3), e |-> e]
    ELSE LET idx1 == e.indices[word1]
             idx2 == e.indices[word2]
             idx3 == e.indices[word3]
             diff == minus(lookupIdx(e, idx2), lookupIdx(e, idx1))
             e2 == [e EXCEPT !.matrix = copyAt(e.matrix, idx2 * e.embedSize, diff)]
             v4 == plus(diff, lookupIdx(e2, idx3))
         IN  similarity(e2, v4, {idx1, idx2, idx3}, limit)

\* e.Analogy(word1, word2, word3, limit)
Analogy(e, word1, word2, word3, limit) ==
    IF word1 \notin DOMAIN e.indices
    THEN [results |-> <<>>, err |-> UnknownWordError(word1), e |-> e]
    ELSE IF word2 \notin DOMAIN e.indices
    THEN [results |-> <<>>, err |-> UnknownWordError(word2), e |-> e]
    ELSE IF word3 \notin DOMAIN e.indices
    THEN [results |-> <<>>, err |-> UnknownWordError(word3), e |-> e]
    ELSE LET idx1 == e.indices[word1]
             idx2 == e.indices[word2]
             idx3 == e.indices[word3]
             v4 == plus(minus(lookupIdx(e, idx2), lookupIdx(e, idx1)), lookupIdx(e, idx3))
         IN  similarity(e, v4, {idx1, idx2, idx3}, limit)

(***************************************************************************)
(* strings.TrimSpace                                                       *)
(***************************************************************************)
RECURSIVE TrimLeft(_)
TrimLeft(w) ==
    IF Len(w) > 0 /\ w[1] \in Whitespace THEN TrimLeft(Tail(w)) ELSE w

RECURSIVE TrimRight(_)
TrimRight(w) ==
    IF Len(w) > 0 /\ w[Len(w)] \in Whitespace
    THEN TrimRight(SubSeq(w, 1, Len(w) - 1))
    ELSE w

\* the word left as r.ReadString returned it
TrimSpace_Off(w) == w

\* strings.TrimSpace(word)
TrimSpace(w) == TrimRight(TrimLeft(w))


(***************************************************************************)
(* Streams.  A stream is the sequence of bytes of a bufio.Reader or Writer.*)
(* A byte of text is its character c; the k-th byte of a float32 of value  *)
(* f keeps f and k, and its character is "#": no byte of the little-endian *)
(* encoding of the values used here is a space, a newline or a digit.      *)
(***************************************************************************)
Char(c) == [c |-> c, f |-> 0, k |-> 0]
Chars(w) == [i \in 1..Len(w) |-> Char(w[i])]

\* the bytes binary.Write emits for one float32
FloatBytes(v) == [k \in 1..4 |-> [c |-> "#", f |-> v, k |-> k]]

RECURSIVE VecBytes(_)
\* binary.Write(w, binary.LittleEndian, embedding)
VecBytes(vec) ==
    IF Len(vec) = 0 THEN <<>> ELSE FloatBytes(Head(vec)) \o VecBytes(Tail(vec))

\* the float32 binary.Read decodes from four bytes that are not the four
\* bytes of one written float32
Garbage == 9

\* the float32 binary.Read decodes from bytes pos+1..pos+4 of the stream
FloatAt(r, pos) ==
    IF \A k \in 1..4 : r[pos + k].k = k /\ r[pos + k].f = r[pos + 1].f
    THEN r[pos + 1].f
    ELSE Garbage

Digits == <<"0", "1", "2", "3", "4", "5", "6", "7", "8", "9">>
DigitVal(c) == (CHOOSE d \in 1..Len(Digits) : Digits[d] = c) - 1
IsDigit(b) == \E d \in 1..Len(Digits) : Digits[d] = b.c

RECURSIVE Decimal(_)
\* the verb %d of fmt.Fprintf
Decimal(n) ==
    IF n < Len(Digits)
    THEN <<Digits[n + 1]>>
    ELSE Append(Decimal(n \div Len(Digits)), Digits[(n % Len(Digits)) + 1])

RECURSIVE SkipSpace(_, _)
\* fmt.Fscanf skips blanks before a number, and stops at a newline
SkipSpace(r, pos) ==
    IF pos < Len(r) /\ r[pos + 1].c \in {" ", "\t"} THEN SkipSpace(r, pos + 1) ELSE pos

RECURSIVE scanNumber(_, _, _)
\* the digits from pos on, accumulated into val
scanNumber(r, pos, val) ==
    IF pos < Len(r) /\ IsDigit(r[pos + 1])
    THEN scanNumber(r, pos + 1, val * Len(Digits) + DigitVal(r[pos + 1].c))
    ELSE [val |-> val, pos |-> pos]

\* fmt.Fscanf(r, "%d", &n) from position pos: ok is FALSE when it returns an
\* error (end of stream, a newline, or no digit)
Fscanf(r, pos) ==
    LET p == SkipSpace(r, pos)
        n == scanNumber(r, p, 0)
    IN  [ok |-> n.pos > p, val |-> n.val, pos |-> n.pos]

RECURSIVE delimAt(_, _)
\* the position after the first space at or after pos, or the end
delimAt(r, pos) ==
    IF pos >= Len(r) THEN Len(r)
    ELSE IF r[pos + 1].c = " " THEN pos + 1
    ELSE delimAt(r, pos + 1)

\* r.ReadString(' '): the bytes up to and including the delimiter, or up to
\* the end of the stream (the error it then returns is dropped)
ReadString(r, pos) ==
    LET end == delimAt(r, pos)
    IN  [word |-> [i \in 1..(end - pos) |-> r[pos + i].c], pos |-> end]

\* binary.Read(r, binary.LittleEndian, slice of n floats): it fails when
\* fewer than 4*n bytes are left, and reads nothing when n = 0
binaryRead(r, pos, n) ==
    IF Len(r) - pos < 4 * n
    THEN [ok |-> FALSE, vec |-> <<>>, pos |-> Len(r)]
    ELSE [ok |-> TRUE, vec |-> [j \in 1..n |-> FloatAt(r, pos + 4 * (j - 1))],
          pos |-> pos + 4 * n]

RECURSIVE readLoop_FirstWins(_, _, _, _)
\* the loop with an index map that keeps the first index of a word
readLoop_FirstWins(r, pos, idx, e) ==
    IF idx >= Len(e.words)
    THEN [e |-> e, err |-> NoErr, ok |-> TRUE]
    ELSE LET tok == ReadString(r, pos)
             word == TrimSpace(tok.word)
             start == idx * e.embedSize
             row == binaryRead(r, tok.pos, e.embedSize)
             e2 == [e EXCEPT !.indices = IF word \in DOMAIN e.indices
                                         THEN e.indices
                                         ELSE MapPut(e.indices, word, idx),
                             !.words[idx + 1] = word,
                             !.matrix = copyAt(e.matrix, start, row.vec)]
         IN  IF ~row.ok
             THEN [e |-> NewEmbeddings(0), err |-> ReadError, ok |-> FALSE]
             ELSE readLoop_FirstWins(r, row.pos, idx + 1, e2)

RECURSIVE readLoop_KeepsPartial(_, _, _, _)
\* the loop returning what it has filled in when binary.Read fails
readLoop_KeepsPartial(r, pos, idx, e) ==
    IF idx >= Len(e.words)
    THEN [e |-> e, err |-> NoErr, ok |-> TRUE]
    ELSE LET tok == ReadString(r, pos)
             word == TrimSpace(tok.word)
             start == idx * e.embedSize
             row == binaryRead(r, tok.pos, e.embedSize)
             e2 == [e EXCEPT !.indices = MapPut(e.indices, word, idx),
                             !.words[idx + 1] = word,
                             !.matrix = copyAt(e.matrix, start, row.vec)]
         IN  IF ~row.ok
             THEN [e |-> e, err |-> ReadError, ok |-> TRUE]
             ELSE readLoop_KeepsPartial(r, row.pos, idx + 1, e2)

\* the state of the loop 'for idx := 0; idx < int(nWords); idx++'
RECURSIVE readLoop(_, _, _, _)
readLoop(r, pos, idx, e) ==
    IF idx >= Len(e.words)
    THEN [e |-> e, err |-> NoErr, ok |-> TRUE]
    ELSE LET tok == ReadString(r, pos)
             word == TrimSpace(tok.word)
             start == idx * e.embedSize
             row == binaryRead(r, tok.pos, e.embedSize)
             e2 == [e EXCEPT !.indices = MapPut(e.indices, word, idx),
                             !.words[idx + 1] = word,
                             !.matrix = copyAt(e.matrix, start, row.vec)]
         IN  IF ~row.ok
             THEN [e |-> NewEmbeddings(0), err |-> ReadError, ok |-> FALSE]
             ELSE readLoop(r, row.pos, idx + 1, e2)

\* ReadWord2VecBinary(r, false): ok is FALSE when it returns nil, err
ReadWord2VecBinary(r) ==
    LET nWords == Fscanf(r, 0)
        vSize == Fscanf(r, nWords.pos)
    IN  IF ~nWords.ok \/ ~vSize.ok
        THEN [e |-> NewEmbeddings(0), err |-> ReadError, ok |-> FALSE]
        ELSE readLoop(r, vSize.pos, 0,
                 [matrix |-> [k \in 1..(nWords.val * vSize.val) |-> 0],
                  embedSize |-> vSize.val,
                  indices |-> EmptyMap,
                  words |-> [k \in 1..nWords.val |-> <<>>]])

\* fmt.Fprintf(w, "%d %d\n", nWords, embedSize)
HeaderBytes(nWords, vSize) ==
    Chars(Decimal(nWords) \o <<" ">> \o Decimal(vSize) \o <<"\n">>)

\* w.WriteString(word + " ") and binary.Write of the row
RecordBytes(word, vec) == Chars(Append(word, " ")) \o VecBytes(vec)

RECURSIVE writeLoop_Reverse(_, _, _)
\* the loop writing the rows from the last to the first
writeLoop_Reverse(e, idx, w) ==
    IF idx >= Len(e.words)
    THEN w
    ELSE LET row == Len(e.words) - 1 - idx
         IN  writeLoop_Reverse(e, idx + 1,
                 [out |-> w.out \o RecordBytes(e.words[row + 1], lookupIdx(e, row)),
                  records |-> Append(w.records,
                                 [word |-> e.words[row + 1], vec |-> lookupIdx(e, row),
                                  at |-> Len(w.out)]),
                  err |-> NoErr])

\* the state of the loop 'for idx, word := range e.words': out is what has
\* been written, records what each iteration wrote
RECURSIVE writeLoop(_, _, _)
writeLoop(e, idx, w) ==
    IF idx >= Len(e.words)
    THEN w
    ELSE writeLoop(e, idx + 1,
             [out |-> w.out \o RecordBytes(e.words[idx + 1], lookupIdx(e, idx)),
              records |-> Append(w.records,
                             [word |-> e.words[idx + 1], vec |-> lookupIdx(e, idx),
                              at |-> Len(w.out)]),
              err |-> NoErr])

\* Write with the second early return left out: a store of embedding size 0
\* gets a header and its words
Write_NoSizeCheck(e) ==
    IF Len(e.words) = 0
    THEN [out |-> <<>>, records |-> <<>>, err |-> NoErr]
    ELSE writeLoop(e, 0, [out |-> HeaderBytes(Len(e.words), e.embedSize),
                          records |-> <<>>, err |-> NoErr])

\* e.Write(w), on a writer that takes every byte
Write(e) ==
    IF Len(e.words) = 0
    THEN [out |-> <<>>, records |-> <<>>, err |-> NoErr]
    ELSE IF e.embedSize = 0
    THEN [out |-> <<>>, records |-> <<>>, err |-> NoErr]
    ELSE writeLoop(e, 0, [out |-> HeaderBytes(Len(e.words), e.embedSize),
                          records |-> <<>>, err |-> NoErr])

\* the bytes of a file: a header and records in the layout above, the word
\* of a record being a token of RawWords, without the last 'cut' bytes; or,
\* for header = FALSE, with a header that has no number in its first field
FileBytes(file) ==
    LET n == Len(file.records)
        head == IF file.header
                THEN HeaderBytes(n, file.vSize)
                ELSE Chars(<<"x", " ">> \o Decimal(file.vSize) \o <<"\n">>)
        F[i \in 0..n] ==
            IF i = 0 THEN head
            ELSE F[i - 1] \o RecordBytes(file.records[i].word, file.records[i].vec)
        whole == F[n]
    IN  SubSeq(whole, 1, Len(whole) - file.cut)

\* a file and what an end of the stream after each of its bytes leaves of it
Cuts(file) ==
    {[file EXCEPT !.cut = c] :
        c \in IF file.header THEN 0..Len(FileBytes(file)) ELSE {0}}

\* the records of a file that declares n records of d floats
Records(n, d) == [1..n -> [word : RawWords, vec : Vectors(d)]]

(***************************************************************************)
(* Iterate.  The visitor f is given by the number stopAt of the call at    *)
(* which it returns false; a stopAt beyond the rows is a visitor that      *)
(* returns true throughout.  visits lists the calls of f in order.         *)
(***************************************************************************)
RECURSIVE iterateLoop_NoBreak(_, _, _, _)
\* the loop of Iterate without its break: what f returns is dropped
iterateLoop_NoBreak(e, stopAt, idx, visits) ==
    IF idx >= Len(e.words)
    THEN visits
    ELSE iterateLoop_NoBreak(e, stopAt, idx + 1,
             Append(visits, [word |-> e.words[idx + 1], embedding |-> lookupIdx(e, idx),
                             call |-> Len(visits) + 1]))

RECURSIVE iterateLoop(_, _, _, _)
\* the state of the loop 'for idx, word := range e.words'
iterateLoop(e, stopAt, idx, visits) ==
    IF idx >= Len(e.words)
    THEN visits
    ELSE LET called == Append(visits, [word |-> e.words[idx + 1],
                                       embedding |-> lookupIdx(e, idx),
                                       call |-> Len(visits) + 1])
         IN  IF Len(called) = stopAt
             THEN called
             ELSE iterateLoop(e, stopAt, idx + 1, called)

\* e.Iterate(f)
Iterate(e, stopAt) == iterateLoop(e, stopAt, 0, <<>>)

(***************************************************************************)
(* The calls.  Every action is one call of the API, run to completion.     *)
(***************************************************************************)
NoFile == [header |-> TRUE, vSize |-> 0, records |-> <<>>, cut |-> 0]

NoCall ==
    [op |-> "none", word1 |-> <<>>, word2 |-> <<>>, word3 |-> <<>>,
     limit |-> 0, embedding |-> <<>>, file |-> NoFile, stopAt |-> 0]

NoRet ==
    [results |-> <<>>, err |-> NoErr, embedding |-> <<>>, ok |-> TRUE, n |-> 0,
     out |-> <<>>, records |-> <<>>, visits |-> <<>>, e |-> NewEmbeddings(0)]

(***************************************************************************)
(* Goroutines.  A goroutine runs one Similarity, Analogy or Iterate call   *)
(* in steps: the lookups of its words and the vector arithmetic ("start"), *)
(* the Sgemv call into the slice dps it has made ("sgemv"), one iteration  *)
(* of the ranking loop per step ("rank"), one call of the visitor per step *)
(* ("visit").  Its locals are fields of its record; the store is shared.   *)
(* A step returns the goroutine after it and the store after it.           *)
(***************************************************************************)
Threads == {"t1", "t2"}

NoThread ==
    [call |-> NoCall, pc |-> "none", embed |-> <<>>, skips |-> {}, dps |-> <<>>,
     idx |-> 0, results |-> <<>>, err |-> NoErr, visits |-> <<>>]

NoThreads == [t \in Threads |-> NoThread]

\* the calls the goroutines make: Similarity with a limit of 1 or MaxLimit,
\* Analogy with MaxLimit, and a visitor that returns false at its second
\* call or never
ThreadCalls ==
    {[NoCall EXCEPT !.op = "Similarity", !.word1 = w, !.limit = k] :
        w \in {<<"a">>, <<"b">>}, k \in {1, MaxLimit}}
    \cup
    {[NoCall EXCEPT !.op = "Analogy", !.word1 = w[1], !.word2 = w[2], !.word3 = w[3],
                    !.limit = MaxLimit] :
        w \in {<<<<"a">>, <<"b">>, <<"c">>>>, <<<<"b">>, <<"a">>, <<"a">>>>}}
    \cup
    {[NoCall EXCEPT !.op = "Iterate", !.stopAt = k] : k \in {2, Cardinality(Words) + 1}}

\* the words a call looks up, in the order of the lookups
callWords(c) ==
    IF c.op = "Similarity" THEN <<c.word1>>
    ELSE IF c.op = "Analogy" THEN <<c.word1, c.word2, c.word3>>
    ELSE <<>>

\* the first of the words of c that e does not hold (there is one)
firstMissing(e, c) ==
    LET missing == {i \in DOMAIN callWords(c) : callWords(c)[i] \notin DOMAIN e.indices}
    IN  callWords(c)[CHOOSE i \in missing : \A j \in missing : i <= j]

\* the first step with a minus that stores the differences into its first
\* argument, the row of word2
threadStart_MinusInPlace(e, th) ==
    LET c == th.call
    IN  IF c.op = "Iterate"
        THEN [th |-> [th EXCEPT !.pc = IF Len(e.words) = 0 THEN "done" ELSE "visit"],
              e |-> e]
        ELSE IF \E i \in DOMAIN callWords(c) : callWords(c)[i] \notin DOMAIN e.indices
        THEN [th |-> [th EXCEPT !.pc = "done",
                                !.err = UnknownWordError(firstMissing(e, c))],
              e |-> e]
        ELSE IF c.op = "Similarity"
        THEN [th |-> [th EXCEPT !.pc = "sgemv",
                                !.embed = lookupIdx(e, e.indices[c.word1]),
                                !.skips = {e.indices[c.word1]}],
              e |-> e]
        ELSE LET idx1 == e.indices[c.word1]
                 idx2 == e.indices[c.word2]
                 idx3 == e.indices[c.word3]
                 diff == minus(lookupIdx(e, idx2), lookupIdx(e, idx1))
                 e2 == [e EXCEPT !.matrix = copyAt(e.matrix, idx2 * e.embedSize, diff)]
             IN  [th |-> [th EXCEPT !.pc = "sgemv",
                                    !.embed = plus(diff, lookupIdx(e2, idx3)),
                                    !.skips = {idx1, idx2, idx3}],
                  e |-> e2]

\* Similarity up to its call of e.similarity, Analogy up to its call of
\* e.similarity, Iterate up to its loop
threadStart(e, th) ==
    LET c == th.call
    IN  IF c.op = "Iterate"
        THEN [th |-> [th EXCEPT !.pc = IF Len(e.words) = 0 THEN "done" ELSE "visit"],
              e |-> e]
        ELSE IF \E i \in DOMAIN callWords(c) : callWords(c)[i] \notin DOMAIN e.indices
        THEN [th |-> [th EXCEPT !.pc = "done",
                                !.err = UnknownWordError(firstMissing(e, c))],
              e |-> e]
        ELSE IF c.op = "Similarity"
        THEN [th |-> [th EXCEPT !.pc = "sgemv",
                                !.embed = lookupIdx(e, e.indices[c.word1]),
                                !.skips = {e.indices[c.word1]}],
              e |-> e]
        ELSE LET idx1 == e.indices[c.word1]
                 idx2 == e.indices[c.word2]
                 idx3 == e.indices[c.word3]
             IN  [th |-> [th EXCEPT !.pc = "sgemv",
                                    !.embed = plus(minus(lookupIdx(e, idx2),
                                                         lookupIdx(e, idx1)),
                                                   lookupIdx(e, idx3)),
                                    !.skips = {idx1, idx2, idx3}],
                  e |-> e]

\* dps := make([]float32, e.Size()) and the Sgemv call; the embed of
\* Similarity is the row of its word in the matrix, that of Analogy a slice
\* plus has made
threadSgemv(e, th) ==
    LET embed == IF th.call.op = "Similarity"
                 THEN lookupIdx(e, e.indices[th.call.word1])
                 ELSE th.embed
        dps == Sgemv(e, embed)
    IN  [th |-> [th EXCEPT !.dps = dps, !.idx = 0, !.results = <<>>,
                           !.pc = IF Len(dps) = 0 THEN "done" ELSE "rank"],
         e |-> e]

\* one iteration of 'for idx, sim := range dps'
threadRank(e, th) ==
    [th |-> [th EXCEPT !.results = rankStep(e, th.dps, th.skips, th.call.limit,
                                            th.idx, th.results),
                       !.idx = th.idx + 1,
                       !.pc = IF th.idx + 1 >= Len(th.dps) THEN "done" ELSE "rank"],
     e |-> e]

\* one iteration of 'for idx, word := range e.words' of Iterate
threadVisit(e, th) ==
    LET called == Append(th.visits, [word |-> e.words[th.idx + 1],
                                     embedding |-> lookupIdx(e, th.idx),
                                     call |-> Len(th.visits) + 1])
    IN  [th |-> [th EXCEPT !.visits = called,
                           !.idx = th.idx + 1,
                           !.pc = IF Len(called) = th.call.stopAt
                                     \/ th.idx + 1 >= Len(e.words)
                                  THEN "done" ELSE "visit"],
         e |-> e]

threadStep(e, th) ==
    CASE th.pc = "start" -> threadStart(e, th)
      [] th.pc = "sgemv" -> threadSgemv(e, th)
      [] th.pc = "rank" -> threadRank(e, th)
      [] th.pc = "visit" -> threadVisit(e, th)

(***************************************************************************)
(* Views.  Embedding returns e.matrix[start:start+embedSize], a slice of   *)
(* the array under e.matrix.  While the view is attached, its elements are *)
(* those of the matrix; append in Put moves the matrix to a new array when *)
(* the capacity of the old one does not suffice, and the view then keeps   *)
(* the old array (data).  rows is the number of words when the view was    *)
(* taken.                                                                  *)
(***************************************************************************)
NoView ==
    [kind |-> "none", word |-> <<>>, start |-> 0, len |-> 0, data |-> <<>>, rows |-> 0]

\* the view a lookupIdx that copied the row would return
viewOf_Copy(e, idx) ==
    [kind |-> "detached", word |-> e.words[idx + 1], start |-> idx * e.embedSize,
     len |-> e.embedSize, data |-> lookupIdx(e, idx), rows |-> Len(e.words)]

\* the slice e.lookupIdx(idx) returns
viewOf(e, idx) ==
    [kind |-> "attached", word |-> e.words[idx + 1], start |-> idx * e.embedSize,
     len |-> e.embedSize, data |-> <<>>, rows |-> Len(e.words)]

\* the elements of a view
ViewValue(e, v) ==
    IF v.kind = "attached" THEN SubSeq(e.matrix, v.start + 1, v.start + v.len) ELSE v.data

\* the view after a Put that took the store from e to e2: an append either
\* had the capacity or moved the matrix
ViewsAfterPut(e, e2, v) ==
    IF v.kind = "attached" /\ Len(e2.matrix) > Len(e.matrix)
    THEN {v, [v EXCEPT !.kind = "detached", !.data = ViewValue(e, v)]}
    ELSE {v}

\* the values a caller stores through a view
ViewValues == {0, 1}

Init ==
    /\ matrix = <<>>
    /\ embedSize = 0
    /\ indices = EmptyMap
    /\ words = <<>>
    /\ constructed = FALSE
    /\ call = NoCall
    /\ ret = NoRet
    /\ origin = [kind |-> "none", size |-> 0]
    /\ putWords = {}
    /\ threads = NoThreads
    /\ view = NoView

\* the four fields of the store become those of e
SetStore(e) ==
    /\ matrix' = e.matrix
    /\ embedSize' = e.embedSize
    /\ indices' = e.indices
    /\ words' = e.words

StoreUnchanged == UNCHANGED <<matrix, embedSize, indices, words>>

\* no call is recorded: the caller is about to make its next call
Idle == call.op = "none"

\* e := NewEmbeddings(size)
DoNewEmbeddings ==
    /\ Idle
    /\ ~constructed
    /\ \E size \in Dims :
          /\ SetStore(NewEmbeddings(size))
          /\ call' = [NoCall EXCEPT !.op = "NewEmbeddings", !.limit = size]
          /\ origin' = [kind |-> "new", size |-> size]
    /\ constructed' = TRUE
    /\ ret' = NoRet
    /\ putWords' = {}
    /\ UNCHANGED <<threads, view>>

\* e, err := ReadWord2VecBinary(r, false); on an error e is nil and there is
\* still no store
DoReadWord2VecBinary ==
    /\ Idle
    /\ ~constructed
    /\ \E n \in 0..MaxFileWords, d \in Dims :
       \E records \in Records(n, d), header \in BOOLEAN :
       \E whole \in {[header |-> header, vSize |-> d, records |-> records, cut |-> 0]} :
       \E file \in Cuts(whole) :
       \E r \in {ReadWord2VecBinary(FileBytes(file))} :
          /\ IF r.ok THEN SetStore(r.e) ELSE StoreUnchanged
          /\ constructed' = r.ok
          /\ ret' = [NoRet EXCEPT !.err = r.err, !.ok = r.ok]
          /\ origin' = IF r.ok THEN [kind |-> "load", size |-> r.e.embedSize] ELSE origin
          /\ call' = [NoCall EXCEPT !.op = "ReadWord2VecBinary", !.file = file]
    /\ putWords' = {}
    /\ UNCHANGED <<threads, view>>

\* err := e.Put(word, embedding)
DoPut ==
    /\ Idle
    /\ constructed
    /\ \E word \in Words, embedding \in PutVectors :
       \E r \in {Put(store, word, embedding)} :
          /\ SetStore(r.e)
          /\ ret' = [NoRet EXCEPT !.err = r.err]
          /\ putWords' = IF origin.kind = "new" /\ r.err = NoErr
                         THEN putWords \cup {word}
                         ELSE putWords
          /\ call' = [NoCall EXCEPT !.op = "Put", !.word1 = word, !.embedding = embedding]
          /\ view' \in ViewsAfterPut(store, r.e, view)
    /\ UNCHANGED <<constructed, origin, threads>>

\* results, err := e.Similarity(word, limit)
DoSimilarity ==
    /\ Idle
    /\ constructed
    /\ \E word \in Words, limit \in Limits :
          /\ word \in DOMAIN indices => SgemvDefined(store)
          /\ \E r \in {Similarity(store, word, limit)} :
                /\ SetStore(r.e)
                /\ ret' = [NoRet EXCEPT !.results = r.results, !.err = r.err]
          /\ call' = [NoCall EXCEPT !.op = "Similarity", !.word1 = word, !.limit = limit]
    /\ UNCHANGED <<constructed, origin, putWords, threads, view>>

\* results, err := e.Analogy(word1, word2, word3, limit)
DoAnalogy ==
    /\ Idle
    /\ constructed
    /\ \E word1 \in Words, word2 \in Words, word3 \in Words, limit \in Limits :
          /\ {word1, word2, word3} \subseteq DOMAIN indices => SgemvDefined(store)
          /\ \E r \in {Analogy(store, word1, word2, word3, limit)} :
                /\ SetStore(r.e)
                /\ ret' = [NoRet EXCEPT !.results = r.results, !.err = r.err]
          /\ call' = [NoCall EXCEPT !.op = "Analogy", !.word1 = word1, !.word2 = word2,
                                    !.word3 = word3, !.limit = limit]
    /\ UNCHANGED <<constructed, origin, putWords, threads, view>>

\* n := e.Size()
DoSize ==
    /\ Idle
    /\ constructed
    /\ ret' = [NoRet EXCEPT !.n = Size(store)]
    /\ call' = [NoCall EXCEPT !.op = "Size"]
    /\ StoreUnchanged
    /\ UNCHANGED <<constructed, origin, putWords, threads, view>>

\* n := e.EmbeddingSize()
DoEmbeddingSize ==
    /\ Idle
    /\ constructed
    /\ ret' = [NoRet EXCEPT !.n = EmbeddingSize(store)]
    /\ call' = [NoCall EXCEPT !.op = "EmbeddingSize"]
    /\ StoreUnchanged
    /\ UNCHANGED <<constructed, origin, putWords, threads, view>>

\* embedding, ok := e.Embedding(word)
DoEmbedding ==
    /\ Idle
    /\ constructed
    /\ \E word \in Words : \E r \in {Embedding(store, word)} :
          /\ ret' = [NoRet EXCEPT !.embedding = r.embedding, !.ok = r.ok]
          /\ call' = [NoCall EXCEPT !.op = "Embedding", !.word1 = word]
    /\ StoreUnchanged
    /\ UNCHANGED <<constructed, origin, putWords, threads, view>>

\* idx, ok := e.WordIdx(word)
DoWordIdx ==
    /\ Idle
    /\ constructed
    /\ \E word \in Words : \E r \in {WordIdx(store, word)} :
          /\ ret' = [NoRet EXCEPT !.n = r.idx, !.ok = r.ok]
          /\ call' = [NoCall EXCEPT !.op = "WordIdx", !.word1 = word]
    /\ StoreUnchanged
    /\ UNCHANGED <<constructed, origin, putWords, threads, view>>

\* err := e.Write(w)
DoWrite ==
    /\ Idle
    /\ constructed
    /\ \E r \in {Write(store)} :
          ret' = [NoRet EXCEPT !.out = r.out, !.records = r.records, !.err = r.err]
    /\ call' = [NoCall EXCEPT !.op = "Write"]
    /\ StoreUnchanged
    /\ UNCHANGED <<constructed, origin, putWords, threads, view>>

\* e.Iterate(f)
DoIterate ==
    /\ Idle
    /\ constructed
    /\ \E stopAt \in 1..(Len(words) + 1) :
          /\ ret' = [NoRet EXCEPT !.visits = Iterate(store, stopAt)]
          /\ call' = [NoCall EXCEPT !.op = "Iterate", !.stopAt = stopAt]
    /\ StoreUnchanged
    /\ UNCHANGED <<constructed, origin, putWords, threads, view>>

\* the caller has taken what the call returned, or what every goroutine it
\* started and waited for returned, and goes on to its next call
Return ==
    /\ ~Idle
    /\ \A t \in Threads : threads[t].pc \in {"none", "done"}
    /\ call' = NoCall
    /\ ret' = NoRet
    /\ threads' = NoThreads
    /\ StoreUnchanged
    /\ UNCHANGED <<constructed, origin, putWords, view>>

\* a store is constructed once; the other calls need one
Next ==
    \/ DoNewEmbeddings
    \/ DoReadWord2VecBinary
    \/ DoPut
    \/ DoSimilarity
    \/ DoAnalogy
    \/ DoSize
    \/ DoEmbeddingSize
    \/ DoEmbedding
    \/ DoWordIdx
    \/ DoWrite
    \/ DoIterate
    \/ Return

Spec == Init /\ [][Next]_vars

(***************************************************************************)
(* Writing a store and reading it back.  Put takes any string as a word:   *)
(* here the words include the empty word and words with a space inside or  *)
(* whitespace at an end, in stores of at most MaxIORows rows.              *)
(***************************************************************************)
IOWords ==
    {<<>>, <<"a">>, <<"b">>, <<"a", " ", "b">>, <<" ", "b">>, <<"a", "\n">>}

\* err := e.Put(word, embedding), for the words of IOWords
DoPutIO ==
    /\ Idle
    /\ constructed
    /\ \E word \in IOWords, embedding \in PutVectors :
          /\ word \in DOMAIN indices \/ Len(words) < MaxIORows
          /\ \E r \in {Put(store, word, embedding)} :
                /\ SetStore(r.e)
                /\ ret' = [NoRet EXCEPT !.err = r.err]
          /\ call' = [NoCall EXCEPT !.op = "Put", !.word1 = word, !.embedding = embedding]
    /\ UNCHANGED <<constructed, origin, putWords, threads, view>>

\* e2, err := ReadWord2VecBinary(r, false) on the bytes the Write that has
\* just returned put into its writer; e2 is a second store, kept in ret.e
DoReadBack ==
    /\ call.op = "Write"
    /\ \E r \in {ReadWord2VecBinary(ret.out)} :
          ret' = [NoRet EXCEPT !.out = ret.out, !.ok = r.ok, !.err = r.err, !.e = r.e]
    /\ call' = [NoCall EXCEPT !.op = "ReadBack"]
    /\ StoreUnchanged
    /\ UNCHANGED <<constructed, origin, putWords, threads, view>>

NextIO ==
    \/ DoNewEmbeddings
    \/ DoReadWord2VecBinary
    \/ DoPutIO
    \/ DoWrite
    \/ DoReadBack
    \/ Return

SpecIO == Init /\ [][NextIO]_vars

(***************************************************************************)
(* Queries side by side.  The caller starts a goroutine per name of        *)
(* Threads, each with one Similarity, Analogy or Iterate call, makes no    *)
(* call itself until all of them have returned (Return), and the           *)
(* goroutines take their steps in any order.                               *)
(***************************************************************************)
\* go e.Similarity(...), go e.Analogy(...), go e.Iterate(...)
Spawn ==
    /\ Idle
    /\ constructed
    /\ \E calls \in [Threads -> ThreadCalls] :
          /\ \A t \in Threads :
                (/\ calls[t].op # "Iterate"
                 /\ \A i \in DOMAIN callWords(calls[t]) :
                       callWords(calls[t])[i] \in DOMAIN indices) => SgemvDefined(store)
          /\ threads' = [t \in Threads |-> [NoThread EXCEPT !.call = calls[t], !.pc = "start"]]
    /\ call' = [NoCall EXCEPT !.op = "Concurrent"]
    /\ ret' = NoRet
    /\ StoreUnchanged
    /\ UNCHANGED <<constructed, origin, putWords, view>>

\* a goroutine takes its next step
Step ==
    /\ call.op = "Concurrent"
    /\ \E t \in Threads :
          /\ threads[t].pc \notin {"none", "done"}
          /\ \E r \in {threadStep(store, threads[t])} :
                /\ threads' = [threads EXCEPT ![t] = r.th]
                /\ SetStore(r.e)
    /\ UNCHANGED <<constructed, call, ret, origin, putWords, view>>

NextConc ==
    \/ DoNewEmbeddings
    \/ DoPut
    \/ Spawn
    \/ Step
    \/ Return

SpecConc == Init /\ [][NextConc]_vars

(***************************************************************************)
(* A caller that keeps the slice Embedding returned, stores into it, and   *)
(* goes on calling Put, Embedding and Similarity.                          *)
(***************************************************************************)
\* v, ok := e.Embedding(word), with v kept (nil when ok is false)
DoHoldEmbedding ==
    /\ Idle
    /\ constructed
    /\ \E word \in Words : \E r \in {Embedding(store, word)} :
          /\ ret' = [NoRet EXCEPT !.embedding = r.embedding, !.ok = r.ok]
          /\ call' = [NoCall EXCEPT !.op = "Embedding", !.word1 = word]
          /\ view' = IF r.ok THEN viewOf(store, indices[word]) ELSE NoView
    /\ StoreUnchanged
    /\ UNCHANGED <<constructed, origin, putWords, threads>>

\* v[k-1] = x, for the slice v the caller holds; call.limit is k and
\* call.embedding is <<x>>
DoWriteView ==
    /\ Idle
    /\ view.kind # "none"
    /\ \E k \in 1..view.len, x \in ViewValues :
          /\ IF view.kind = "attached"
             THEN /\ matrix' = [matrix EXCEPT ![view.start + k] = x]
                  /\ view' = view
             ELSE /\ matrix' = matrix
                  /\ view' = [view EXCEPT !.data[k] = x]
          /\ call' = [NoCall EXCEPT !.op = "WriteView", !.limit = k, !.embedding = <<x>>]
    /\ ret' = NoRet
    /\ UNCHANGED <<embedSize, indices, words, constructed, origin, putWords, threads>>

NextView ==
    \/ DoNewEmbeddings
    \/ DoPut
    \/ DoHoldEmbedding
    \/ DoWriteView
    \/ DoEmbedding
    \/ DoSimilarity
    \/ Return

SpecView == Init /\ [][NextView]_vars

(***************************************************************************)
(* What the properties below speak about.                                  *)
(***************************************************************************)
\* a Similarity or Analogy call has returned a result list
QueryOk == call.op \in {"Similarity", "Analogy"} /\ ret.err = NoErr

\* the query words of call c, in argument order
QueryArgs(c) ==
    IF c.op = "Similarity" THEN <<c.word1>> ELSE <<c.word1, c.word2, c.word3>>

QueryWords == {QueryArgs(call)[i] : i \in DOMAIN QueryArgs(call)}

\* the rows of the query words (defined when QueryOk)
ExclusionSet == {indices[w] : w \in QueryWords}

\* the vector the rows are compared with (defined when QueryOk)
QueryVector ==
    IF call.op = "Similarity"
    THEN lookupIdx(store, indices[call.word1])
    ELSE plus(minus(lookupIdx(store, indices[call.word2]),
                    lookupIdx(store, indices[call.word1])),
              lookupIdx(store, indices[call.word3]))

RowScore(idx) == dotProduct(lookupIdx(store, idx), QueryVector)

\* every index of the word array
StoredRows == 0..(Len(words) - 1)

\* the stored rows outside the exclusion set
EligibleRows == StoredRows \ ExclusionSet

\* the rows the loop of similarity visits and does not skip
VisitedRows == (0..(Size(store) - 1)) \ ExclusionSet

ResultRows == {ret.results[i].Row : i \in DOMAIN ret.results}

ResultScores == [i \in DOMAIN ret.results |-> ret.results[i].Similarity]

\* the scores of the rows S, largest first
RECURSIVE ScoresDescending(_)
ScoresDescending(S) ==
    IF S = {}
    THEN <<>>
    ELSE LET top == CHOOSE r \in S : \A q \in S : RowScore(r) >= RowScore(q)
         IN  <<RowScore(top)>> \o ScoresDescending(S \ {top})

\* the first n elements of seq (all of them when it has fewer)
Prefix(seq, n) == SubSeq(seq, 1, Min(Max(n, 0), Len(seq)))

NonIncreasing(seq) ==
    \A i \in 1..(Len(seq) - 1) : seq[i] >= seq[i + 1]

(***************************************************************************)
(* C1: the list Similarity or Analogy returns has at most max(K,0)         *)
(* entries and its scores are non-increasing from the first entry to the   *)
(* last.                                                                   *)
(***************************************************************************)
C1_TopKBoundAndOrder ==
    QueryOk =>
        /\ Len(ret.results) <= Max(call.limit, 0)
        /\ NonIncreasing(ResultScores)

\* a full list of two entries with different scores, the better one from
\* the later row, so that it was inserted in front of the other
C1_Witness ==
    /\ QueryOk
    /\ call.limit = 2
    /\ Len(ret.results) = 2
    /\ ret.results[1].Similarity > ret.results[2].Similarity
    /\ ret.results[1].Row > ret.results[2].Row
    /\ Cardinality(VisitedRows) > 2

(***************************************************************************)
(* C2: Similarity(word, K) never returns an entry whose word is `word`,    *)
(* and Analogy(a, b, c, K) never returns an entry whose word is a, b or c. *)
(***************************************************************************)
C2_QueryWordsNeverReturned ==
    QueryOk =>
        \A i \in DOMAIN ret.results : ret.results[i].Word \notin QueryWords

(***************************************************************************)
(* C3: the scores returned are the K largest scores among all the stored   *)
(* rows (every index of the word array) outside the exclusion set.         *)
(***************************************************************************)
C3_TopKOfAllStoredRows ==
    QueryOk =>
        ScoresDescending(ResultRows) = Prefix(ScoresDescending(EligibleRows), call.limit)

(***************************************************************************)
(* C4 as claimed: among equal scores the row with the lower index comes    *)
(* first in the list, and of the equal-scored rows that compete for the    *)
(* last slots the lower-indexed ones are kept.  Stated for the stores made *)
(* by NewEmbeddings and Put, where every stored row is visited.            *)
(***************************************************************************)
C4_FirstSeenWins ==
    (QueryOk /\ origin.kind = "new") =>
        /\ \A i, j \in DOMAIN ret.results :
               (i < j /\ ret.results[i].Similarity = ret.results[j].Similarity)
                   => ret.results[i].Row < ret.results[j].Row
        /\ \A r \in VisitedRows \ ResultRows : \A i \in DOMAIN ret.results :
               ret.results[i].Similarity = RowScore(r) => ret.results[i].Row < r

(***************************************************************************)
(* C4 amended: among the rows the pass visits, of equal scores the row     *)
(* with the higher index comes first in the list, and of the equal-scored  *)
(* rows that compete for the last slots the higher-indexed ones are kept.  *)
(***************************************************************************)
C4_LastSeenFirst ==
    QueryOk =>
        /\ \A i, j \in DOMAIN ret.results :
               (i < j /\ ret.results[i].Similarity = ret.results[j].Similarity)
                   => ret.results[i].Row > ret.results[j].Row
        /\ \A r \in VisitedRows \ ResultRows : \A i \in DOMAIN ret.results :
               ret.results[i].Similarity = RowScore(r) => ret.results[i].Row > r

\* three visited rows of one score compete for two slots
C4_Witness ==
    /\ QueryOk
    /\ call.limit = 2
    /\ Len(ret.results) = 2
    /\ ret.results[1].Similarity = ret.results[2].Similarity
    /\ \E r \in VisitedRows \ ResultRows : RowScore(r) = ret.results[2].Similarity

(***************************************************************************)
(* C5: Similarity and Analogy return an error and no result list exactly   *)
(* when a query word is absent from the store; the error names the first   *)
(* absent word in argument order, and the store is left unchanged.         *)
(***************************************************************************)
\* the positions of the arguments of call c that the index map lacks
AbsentArgs(c) == {i \in DOMAIN QueryArgs(c) : QueryArgs(c)[i] \notin DOMAIN indices}

FirstAbsentWord(c) ==
    QueryArgs(c)[CHOOSE i \in AbsentArgs(c) : \A j \in AbsentArgs(c) : i <= j]

C5_UnknownWord ==
    [][(Idle /\ call'.op \in {"Similarity", "Analogy"}) =>
          /\ (ret'.err # NoErr) <=> (AbsentArgs(call') # {})
          /\ (ret'.err # NoErr) =>
                /\ ret'.results = <<>>
                /\ ret'.err = UnknownWordError(FirstAbsentWord(call'))
                /\ store' = store]_vars

\* Analogy on a store that has word1 and lacks both word2 and word3
C5_Witness ==
    /\ call.op = "Analogy"
    /\ ret.err = UnknownWordError(call.word2)
    /\ call.word1 \in DOMAIN indices
    /\ call.word3 \notin DOMAIN indices
    /\ call.word3 # call.word2

(***************************************************************************)
(* C6: a successful query with E eligible rows (stored rows outside the    *)
(* exclusion set) returns 0 entries when K <= 0 and min(K, E) entries      *)
(* when K > 0.                                                             *)
(***************************************************************************)
C6_ResultCount ==
    QueryOk =>
        Len(ret.results) =
            IF call.limit <= 0 THEN 0 ELSE Min(call.limit, Cardinality(EligibleRows))

(***************************************************************************)
(* C7: Put with len(embedding) # EmbeddingSize() returns an error and      *)
(* leaves matrix, index map and word array unchanged, whether or not the   *)
(* word is stored.                                                         *)
(***************************************************************************)
C7_PutMismatch ==
    [][(Idle /\ call'.op = "Put" /\ Len(call'.embedding) # EmbeddingSize(store)) =>
          /\ ret'.err # NoErr
          /\ store' = store]_vars

\* a mismatched Put of a stored word, shorter than a row, on a store of rows
C7_Witness ==
    /\ call.op = "Put"
    /\ ret.err = DimensionMismatch
    /\ call.word1 \in DOMAIN indices
    /\ Len(call.embedding) = 1
    /\ embedSize = 2

(***************************************************************************)
(* C8: after Put(w, v) succeeds, Embedding(w) returns v and true; when w   *)
(* was stored before, Size() and the index of w are unchanged and no other *)
(* word's index or embedding changes.                                      *)
(***************************************************************************)
C8_PutThenLookup ==
    [][(Idle /\ call'.op = "Put" /\ ret'.err = NoErr) =>
          LET w == call'.word1
              v == call'.embedding
          IN  /\ Embedding(store', w) = [embedding |-> v, ok |-> TRUE]
              /\ w \in DOMAIN indices =>
                    /\ Size(store') = Size(store)
                    /\ WordIdx(store', w) = WordIdx(store, w)
                    /\ \A x \in (DOMAIN indices) \ {w} :
                          /\ WordIdx(store', x) = WordIdx(store, x)
                          /\ Embedding(store', x) = Embedding(store, x)]_vars

\* an overwrite (the word is not in the last row) that changed a row of a
\* store with two columns and another word after it
C8_Witness ==
    /\ call.op = "Put"
    /\ ret.err = NoErr
    /\ embedSize = 2
    /\ indices[call.word1] < Len(words) - 1
    /\ call.embedding = <<1, 0>>
    /\ \E x \in DOMAIN indices : indices[x] > indices[call.word1]

(***************************************************************************)
(* C9: a store constructed empty with dimension D has Size() = 0 and       *)
(* EmbeddingSize() = D; after any Puts Size() is the number of distinct    *)
(* words put successfully and EmbeddingSize() is still D.                  *)
(***************************************************************************)
C9_SizeCountsPutWords ==
    origin.kind = "new" =>
        /\ Size(store) = Cardinality(putWords)
        /\ EmbeddingSize(store) = origin.size
        /\ call.op = "NewEmbeddings" => Size(store) = 0

\* two words put, the last Put an overwrite
C9_Witness ==
    /\ origin.kind = "new"
    /\ origin.size = 2
    /\ Cardinality(putWords) = 2
    /\ call.op = "Put"
    /\ ret.err = NoErr
    /\ indices[call.word1] = 0

(***************************************************************************)
(* C10: Put is idempotent: the store after Put(w, v); Put(w, v) equals     *)
(* the store after one Put(w, v).                                          *)
(***************************************************************************)
C10_PutIdempotent ==
    [][(Idle /\ call'.op = "Put" /\ ret'.err = NoErr) =>
          Put(store', call'.word1, call'.embedding) = [e |-> store', err |-> NoErr]]_vars

\* a Put that appended a row to a store with rows
C10_Witness ==
    /\ call.op = "Put"
    /\ ret.err = NoErr
    /\ embedSize = 2
    /\ Len(words) >= 2
    /\ indices[call.word1] = Len(words) - 1

\* a call of ReadWord2VecBinary that returned a store
Loaded == call.op = "ReadWord2VecBinary" /\ ret.ok

(***************************************************************************)
(* C11: the indices of the index map are exactly 0..rows-1, one word per   *)
(* row, so Size() is the number of stored rows; after a Load of a file     *)
(* that declares N records, Size() = N.                                    *)
(***************************************************************************)
C11_DenseIndexAndSize ==
    constructed =>
        /\ {indices[w] : w \in DOMAIN indices} = StoredRows
        /\ \A w1, w2 \in DOMAIN indices : indices[w1] = indices[w2] => w1 = w2
        /\ Size(store) = Len(words)
        /\ Loaded => Size(store) = Len(call.file.records)

(***************************************************************************)
(* C12: in every state, every word w of the index map has an index within  *)
(* the rows, and the word array holds w at that index.                     *)
(***************************************************************************)
C12_IndexWordRoundTrip ==
    \A w \in DOMAIN indices :
        /\ indices[w] \in StoredRows
        /\ words[indices[w] + 1] = w

\* a store loaded from a file that repeats a word, with another word put
\* after it
C12_Witness ==
    /\ origin.kind = "load"
    /\ Len(words) = 3
    /\ words[1] = words[2]
    /\ words[3] # words[1]
    /\ call.op = "Put"

(***************************************************************************)
(* C13: the flat matrix holds exactly rows * EmbeddingSize() values, every *)
(* row i < rows lies within it, and every embedding that Embedding returns *)
(* or that Iterate passes to its visitor has length EmbeddingSize().       *)
(***************************************************************************)
C13_MatrixShape ==
    /\ Len(matrix) = Len(words) * EmbeddingSize(store)
    /\ \A idx \in StoredRows :
          /\ (idx + 1) * embedSize <= Len(matrix)
          /\ Len(lookupIdx(store, idx)) = EmbeddingSize(store)
    /\ (call.op = "Embedding" /\ ret.ok) => Len(ret.embedding) = EmbeddingSize(store)
    /\ call.op = "Iterate" =>
          \A j \in 1..Len(ret.visits) :
              Len(ret.visits[j].embedding) = EmbeddingSize(store)

\* Iterate visited three rows of two columns
C13_Witness ==
    /\ call.op = "Iterate"
    /\ embedSize = 2
    /\ Len(ret.visits) = 3

\* the (word, embedding) pairs of the rows of a store
Pairs(e) ==
    {[word |-> e.words[idx + 1], embedding |-> lookupIdx(e, idx)] :
        idx \in 0..(Len(e.words) - 1)}

\* what Embedding returns for each word of a store
Lookups(e) == [w \in DOMAIN e.indices |-> Embedding(e, w).embedding]

\* the store read back has the pairs of the store written
ReadBackSame ==
    /\ ret.ok
    /\ ret.err = NoErr
    /\ Pairs(ret.e) = Pairs(store)
    /\ Lookups(ret.e) = Lookups(store)
    /\ EmbeddingSize(ret.e) = EmbeddingSize(store)

\* a word that r.ReadString(' ') and strings.TrimSpace give back as written
CleanWord(w) ==
    /\ \A i \in 1..Len(w) : w[i] # " "
    /\ Len(w) > 0 => (w[1] \notin Whitespace /\ w[Len(w)] \notin Whitespace)

(***************************************************************************)
(* C14 as stated: for any store with at least one word, Write followed by  *)
(* Load (normalization off) gives a store with the same (word, embedding)  *)
(* pairs, whatever the words and the embedding size.                       *)
(***************************************************************************)
C14_RoundTripAnyStore ==
    (call.op = "ReadBack" /\ Len(words) > 0) => ReadBackSame

(***************************************************************************)
(* C14 amended: Write followed by Load (normalization off) gives a store   *)
(* with the same (word, embedding) pairs when the store has at least one   *)
(* word, its embedding size is at least 1, and no word contains a space or *)
(* begins or ends with whitespace.                                         *)
(***************************************************************************)
C14_RoundTripCleanStore ==
    (/\ call.op = "ReadBack"
     /\ Len(words) > 0
     /\ embedSize >= 1
     /\ \A i \in 1..Len(words) : CleanWord(words[i])) => ReadBackSame

\* two rows of two columns read back, one of them under the empty word
C14_Witness ==
    /\ call.op = "ReadBack"
    /\ embedSize = 2
    /\ Len(words) = 2
    /\ \A i \in 1..Len(words) : CleanWord(words[i])
    /\ words[2] = <<>>
    /\ matrix = <<1, 0, 0, 1>>
    /\ ret.e.words = words

(***************************************************************************)
(* C15: Write emits the records in row order: the i-th record written is   *)
(* the word of row i and row i, and the word count of the header is the    *)
(* number of records written.                                              *)
(***************************************************************************)
C15_WriteOrder ==
    call.op = "Write" =>
        /\ \A i \in 1..Len(ret.records) :
              LET rec == ret.records[i]
                  bytes == RecordBytes(words[i], lookupIdx(store, i - 1))
              IN  /\ rec.word = words[i]
                  /\ rec.vec = lookupIdx(store, i - 1)
                  /\ SubSeq(ret.out, rec.at + 1, rec.at + Len(bytes)) = bytes
                  /\ i > 1 => ret.records[i - 1].at < rec.at
        /\ ret.out # <<>> =>
              /\ Fscanf(ret.out, 0).ok
              /\ Fscanf(ret.out, 0).val = Len(ret.records)
              /\ ret.records[1].at = Len(HeaderBytes(Len(words), embedSize))
        /\ ret.out = <<>> => ret.records = <<>>

\* three rows written, the first two under one word
C15_Witness ==
    /\ call.op = "Write"
    /\ Len(ret.records) = 3
    /\ words[1] = words[2]
    /\ lookupIdx(store, 0) # lookupIdx(store, 1)

(***************************************************************************)
(* C16: when a file holds a word in several records, Load succeeds, and    *)
(* the index of the word and the embedding Embedding returns for it are    *)
(* those of its last record.                                               *)
(***************************************************************************)
C16_LastOccurrenceWins ==
    (call.op = "ReadWord2VecBinary" /\ call.file.header /\ call.file.cut = 0) =>
        /\ ret.ok
        /\ \A i \in 1..Len(call.file.records) :
              LET w == TrimSpace(call.file.records[i].word)
                  last == CHOOSE j \in 1..Len(call.file.records) :
                              /\ TrimSpace(call.file.records[j].word) = w
                              /\ \A k \in (j + 1)..Len(call.file.records) :
                                    TrimSpace(call.file.records[k].word) # w
              IN  /\ WordIdx(store, w) = [idx |-> last - 1, ok |-> TRUE]
                  /\ Embedding(store, w) =
                        [embedding |-> call.file.records[last].vec, ok |-> TRUE]

\* a file of two records for one word, with different floats
C16_Witness ==
    /\ Loaded
    /\ call.file.cut = 0
    /\ Len(call.file.records) = 2
    /\ TrimSpace(call.file.records[1].word) = TrimSpace(call.file.records[2].word)
    /\ call.file.records[1].vec = <<1, 0>>
    /\ call.file.records[2].vec = <<0, 1>>

\* the stream is shorter than the two integers of its header and the blank
\* between them
HeaderCutShort(file) ==
    Len(FileBytes(file)) <
        Len(Decimal(Len(file.records))) + 1 + Len(Decimal(file.vSize))

\* the stream ends before the floats of its last record do
RecordsCutShort(file) ==
    file.vSize >= 1 /\ Len(file.records) >= 1 /\ file.cut >= 1

(***************************************************************************)
(* C17: Load returns an error and no store, never a store filled in part,  *)
(* when the header does not parse as two integers, or when the stream ends *)
(* before the D floats (D >= 1) of one of the N declared records.          *)
(***************************************************************************)
C17_LoadFailsWhole ==
    (/\ call.op = "ReadWord2VecBinary"
     /\ \/ ~call.file.header
        \/ HeaderCutShort(call.file)
        \/ RecordsCutShort(call.file)) =>
        /\ ~ret.ok
        /\ ret.err # NoErr
        /\ ~constructed
        /\ store = NewEmbeddings(0)

\* the stream ends within the floats of the second of two records
C17_Witness ==
    /\ call.op = "ReadWord2VecBinary"
    /\ call.file.header
    /\ Len(call.file.records) = 2
    /\ call.file.vSize = 2
    /\ call.file.cut = 3
    /\ ~ret.ok

(***************************************************************************)
(* C18: Write writes nothing, neither header nor records, and returns no   *)
(* error when the store has no words or its embedding size is 0.           *)
(***************************************************************************)
C18_WriteNothing ==
    (call.op = "Write" /\ (Len(words) = 0 \/ EmbeddingSize(store) = 0)) =>
        /\ ret.out = <<>>
        /\ ret.records = <<>>
        /\ ret.err = NoErr

\* Write on a store of embedding size 0 that has two words
C18_Witness ==
    /\ call.op = "Write"
    /\ embedSize = 0
    /\ Size(store) = 2
    /\ ret.out = <<>>

(***************************************************************************)
(* C19: Iterate calls the visitor with the word and the row of index 0, 1, *)
(* 2, ... in this order, none skipped or repeated, makes no call after the *)
(* first one that returns stop, and visits every row when the visitor      *)
(* never stops; every call of Iterate starts at index 0.                   *)
(***************************************************************************)
C19_IterateOrder ==
    call.op = "Iterate" =>
        /\ Len(ret.visits) = Min(call.stopAt, Len(words))
        /\ \A j \in 1..Len(ret.visits) :
              /\ ret.visits[j].call = j
              /\ ret.visits[j].word = words[j]
              /\ ret.visits[j].embedding = lookupIdx(store, j - 1)

\* the visitor stopped at its second call, with a third row left
C19_Witness ==
    /\ call.op = "Iterate"
    /\ call.stopAt = 2
    /\ Len(words) = 3
    /\ Len(ret.visits) = 2
    /\ embedSize = 2

(***************************************************************************)
(* C20: no query changes the store: when Similarity, Analogy, Embedding,   *)
(* WordIdx, Size or EmbeddingSize returns, with a result or an error, the  *)
(* matrix, the index map and the word array are what they were before; the *)
(* arithmetic of Analogy writes into none of the rows of its three words.  *)
(***************************************************************************)
C20_QueriesKeepStore ==
    [][call'.op \in {"Similarity", "Analogy", "Embedding", "WordIdx", "Size",
                     "EmbeddingSize"} => store' = store]_vars

\* Analogy returned a ranking for three different words whose rows differ
C20_Witness ==
    /\ call.op = "Analogy"
    /\ ret.err = NoErr
    /\ embedSize = 2
    /\ Cardinality({call.word1, call.word2, call.word3}) = 3
    /\ Embedding(store, call.word1).embedding = <<1, 0>>
    /\ Embedding(store, call.word2).embedding = <<0, 1>>
    /\ Len(ret.results) >= 1

(***************************************************************************)
(* C21: Analogy(A, B, C, K) ranks the rows by their dot product with       *)
(* Q = (embedding(B) - embedding(A)) + embedding(C), taken component by    *)
(* component, and leaves out exactly the rows at the indices of A, B and   *)
(* C: every entry carries the dot product of its row with Q, no entry is   *)
(* one of the three rows, and every other stored row is in the list unless *)
(* the list is full of rows that score at least as much.                   *)
(***************************************************************************)
C21_AnalogyRanking ==
    (call.op = "Analogy" /\ ret.err = NoErr) =>
        LET A == Embedding(store, call.word1).embedding
            B == Embedding(store, call.word2).embedding
            C == Embedding(store, call.word3).embedding
            Q == [k \in 1..EmbeddingSize(store) |-> (B[k] - A[k]) + C[k]]
            left == {WordIdx(store, w).idx : w \in {call.word1, call.word2, call.word3}}
            score(r) == dotProduct(lookupIdx(store, r), Q)
        IN  /\ \A i \in DOMAIN ret.results :
                  /\ ret.results[i].Row \in StoredRows \ left
                  /\ ret.results[i].Word = words[ret.results[i].Row + 1]
                  /\ ret.results[i].Similarity = score(ret.results[i].Row)
            /\ NonIncreasing(ResultScores)
            /\ \A r \in StoredRows \ left :
                  \/ r \in ResultRows
                  \/ /\ Len(ret.results) = Max(call.limit, 0)
                     /\ \A i \in DOMAIN ret.results : ret.results[i].Similarity >= score(r)


\* what a goroutine that has returned hands to its caller
ThreadResult(th) == [results |-> th.results, err |-> th.err, visits |-> th.visits]

\* what the call c returns on the store e when nothing else runs
Alone(e, c) ==
    IF c.op = "Similarity"
    THEN LET r == Similarity(e, c.word1, c.limit)
         IN  [results |-> r.results, err |-> r.err, visits |-> <<>>]
    ELSE IF c.op = "Analogy"
    THEN LET r == Analogy(e, c.word1, c.word2, c.word3, c.limit)
         IN  [results |-> r.results, err |-> r.err, visits |-> <<>>]
    ELSE [results |-> <<>>, err |-> NoErr, visits |-> Iterate(e, c.stopAt)]

\* C22: while Similarity, Analogy and Iterate calls run side by side and no
\* Put runs, every step of every interleaving leaves the store as it was,
\* and each call that has returned has returned what it returns on that
\* store when it runs alone.
C22_ConcurrentQueries ==
    [][(call.op = "Concurrent" /\ call'.op = "Concurrent") =>
          /\ store' = store
          /\ \A t \in Threads :
                threads'[t].pc = "done" =>
                    ThreadResult(threads'[t]) = Alone(store, threads'[t].call)]_vars

\* two goroutines have both returned, one a Similarity with an entry and the
\* other an Analogy on known words
C22_Witness ==
    /\ call.op = "Concurrent"
    /\ \A t \in Threads : threads[t].pc = "done"
    /\ threads["t1"].call.op = "Analogy"
    /\ threads["t1"].err = NoErr
    /\ threads["t2"].call.op = "Similarity"
    /\ Len(threads["t2"].results) >= 1
    /\ threads["t1"].call.word2 # threads["t2"].call.word1


\* the goroutine t runs an iteration of the ranking loop in this step
RankIteration(t) ==
    /\ call.op = "Concurrent"
    /\ threads[t].pc = "rank"
    /\ threads'[t] # threads[t]

\* the iteration of t is at a row that is not skipped and the list holds
\* limit entries, at least one
CandidateAtFullList(t) ==
    /\ threads[t].idx \notin threads[t].skips
    /\ threads[t].call.limit >= 1
    /\ Len(threads[t].results) = threads[t].call.limit

\* the score of the row the iteration of t is at
CandidateScore(t) == threads[t].dps[threads[t].idx + 1]

\* the score of the last entry of the list of t
LastScore(t) == threads[t].results[Len(threads[t].results)].Similarity

\* the list after the candidate of t has gone in behind the entries with a
\* higher score, with the last entry dropped
InsertedInFront(t) ==
    LET results == threads[t].results
        higher == Cardinality({i \in DOMAIN results :
                                  results[i].Similarity > CandidateScore(t)})
    IN  SubSeq(results, 1, higher)
        \o <<[Word |-> words[threads[t].idx + 1], Similarity |-> CandidateScore(t),
              Row |-> threads[t].idx]>>
        \o SubSeq(results, higher + 1, Len(results) - 1)

ListBefore(th) ==
    rankLoop(store, SubSeq(th.dps, 1, th.idx - 1), th.skips, th.call.limit, 0, <<>>)

\* the goroutine th has just run an iteration at a row that is not skipped,
\* on a list that held limit entries
RanAtFullList(th) ==
    /\ th.dps # <<>>
    /\ th.idx >= 1
    /\ (th.idx - 1) \notin th.skips
    /\ th.call.limit >= 1
    /\ Len(ListBefore(th)) = th.call.limit

Written(k, x) == [ViewValue(store, view) EXCEPT ![k] = x]

\* C24: the slice Embedding returns is the row of the store, not a copy.
\* While no word has been added since the slice was taken, (1) a Put that
\* overwrites the word of the slice shows through the slice, and (2) a store
\* through the slice is what Embedding returns afterwards and what Similarity
\* ranks by, as if a Put had overwritten the row; (3) a slice whose elements
\* are no longer those of the store is one taken before a word was added,
\* and a slice leaves the store only in a Put that adds a word.
C24_ViewAliasesRow ==
    [][/\ (/\ call.op = "none"
           /\ call'.op = "Put"
           /\ ret'.err = NoErr
           /\ view.kind # "none"
           /\ call'.word1 = view.word
           /\ Len(words') = view.rows)
              => ViewValue(store', view') = call'.embedding
       /\ (/\ call.op = "none"
           /\ call'.op = "WriteView"
           /\ Len(words) = view.rows)
              => LET new == Written(call'.limit, call'.embedding[1])
                 IN  /\ Embedding(store', view.word) = [embedding |-> new, ok |-> TRUE]
                     /\ store' = Put(store, view.word, new).e
                     /\ \A w \in Words :
                           Similarity(store', w, MaxLimit).results
                               = Similarity(Put(store, view.word, new).e, w, MaxLimit).results
       /\ view'.kind = "detached" => Len(words') > view'.rows
       /\ (view.kind = "attached" /\ view'.kind = "detached")
              => call'.op = "Put" /\ Len(words') = Len(words) + 1]_vars

\* a Put has just overwritten the word of a slice taken from a store of two
\* or more words, with no word added since, and the slice shows the
\* embedding that was put
C24_Witness ==
    /\ call.op = "Put"
    /\ ret.err = NoErr
    /\ view.kind = "attached"
    /\ call.word1 = view.word
    /\ Len(words) = view.rows
    /\ Len(words) >= 2
    /\ view.len >= 1
    /\ ViewValue(store, view) = call.embedding

====
